---- MODULE Spec2Model ----
(***************************************************************************)
(* Model of the video transcoding system:                                  *)
(*   - the event dispatcher   (src/consumer/src/index.ts)                  *)
(*   - the transcode pipeline (src/transcoder/index.js, HLS version)       *)
(*                                                                         *)
(* Strings that the code takes apart (object keys, paths) are sequences of *)
(* tokens; "/" and "." are tokens of their own, every other token is an    *)
(* unsplittable run of characters.                                         *)
(***************************************************************************)
EXTENDS Integers, Sequences, FiniteSets, TLC

VARIABLES
    \* ---- event dispatcher ----
    body,        \* body[m]: the Body of queue message m
    inQueue,     \* inQueue[m]: m has not been deleted from the queue
    loopPc,      \* position of init()'s poll loop
    batch,       \* the Messages of the current receive
    mpc,         \* mpc[m]: position of processMessage(m)
    rec,         \* rec[m]: index of the record the for-loop is at
    attempt,     \* attempt[m]: retryWithBackoff's i
    err,         \* err[m]: the error caught by processMessage's catch
    outcome,     \* outcome[m]: how processMessage(m)'s promise settled
    launchedNow, \* launchedNow[m]: records launched in this delivery
    launchLog,   \* launchLog[m]: the RunTask calls that succeeded in this delivery, in order
    launchCount, \* launchCount[m][r]: the launches of record r over all deliveries
    tasks,       \* tasks[m][r]: state of the compute task launched for a record
    visReq,      \* visReq[m]: ChangeMessageVisibility calls sent in this delivery
    visExt,      \* visExt[m]: the visibility change of this delivery succeeded
    escaped,     \* a rejection escaped the batch join (unhandled by the map)
    \* ---- transcode pipeline ----
    ppc,         \* position of processVideo / init
    run,         \* number of the pipeline run (container execution)
    store,       \* object keys present in the destination bucket
    workDir,     \* the temporary workspace directory exists
    workFiles,   \* variants whose encoder output is in the workspace
    sourceFile,  \* the downloaded source file exists on local disk
    originalVideoPath, \* processVideo's originalVideoPath is set (not null)
    dlAttempt,   \* withRetry's attempt inside downloadFromS3
    dlEmpty,     \* the download attempts of the run that wrote an empty file
    vpc,         \* vpc[v]: position of the variant task of RESOLUTIONS[v]
    upl,         \* upl[v][f]: state of the upload of file f of variant v
    chunkNo,     \* chunkNo[v]: the chunk uploadHLSFiles is at
    encoderRuns, \* encoderRuns[v]: encoder invocations in this run
    probes,      \* probes[v]: existence probes in this run
    exists,      \* exists[v]: what checkFileExists returned for the variant
    puts,        \* object keys put into the store in this run
    masterPut,   \* the master manifest was uploaded in this run
    result,      \* outcome of the run
    prevOk,      \* the previous run completed successfully
    \* ---- retry executors ----
    retry,       \* the call of a retry executor: its arguments, locals and outcome
    \* ---- master manifest ----
    variants,    \* the argument of generateMasterPlaylist
    playlist,    \* the lines generateMasterPlaylist returned (<<>>: not called)
    \* ---- destination paths ----
    originalKey, \* the argument of generateS3Paths
    keyPaths,    \* what generateS3Paths returned
    \* ---- URL signing service ----
    request,     \* the operation of VideoService that was called, with its arguments
    signerCalls, \* the videoKeys generateSignedUrl was called with for the request
    response,    \* what the operation returned
    \* ---- uploadHLSFiles ----
    hls          \* the call of uploadHLSFiles: its files, chunk, uploads and outcome

dvars == <<body, inQueue, loopPc, batch, mpc, rec, attempt, err,
           outcome, launchedNow, launchLog, launchCount, tasks, visReq, visExt, escaped>>
pvars == <<ppc, run, store, workDir, workFiles, sourceFile, originalVideoPath,
           dlAttempt, dlEmpty, vpc, upl, chunkNo, encoderRuns, probes, exists, puts,
           masterPut, result, prevOk>>
\* the state of the functions that are exercised on their own
rvars == <<retry>>
mvars == <<variants, playlist>>
kvars == <<originalKey, keyPaths>>
uvars == <<request, signerCalls, response>>
hvars == <<hls>>
xvars == <<rvars, mvars, kvars, uvars, hvars>>
vars == <<dvars, pvars, xvars>>

(***************************************************************************)
(* Bounds of the model                                                     *)
(***************************************************************************)
NumMsgs == 2          \* messages in the queue
MaxRecords == 2       \* records per notification
MaxRuns == 2          \* pipeline runs for the same source
NumSegments == 1      \* segments the encoder produces per variant
MaxAttempts == 6      \* largest attempt limit given to a retry executor
MaxVariants == 4      \* longest variant list given to generateMasterPlaylist
MaxLaunches == 2      \* most launches of one record over the deliveries of its message
MaxFiles == 7         \* most files of a variant directory given to uploadHLSFiles

Msgs == 1..NumMsgs

(***************************************************************************)
(* Strings as token sequences                                              *)
(***************************************************************************)
RECURSIVE SplitFrom(_, _, _, _)
SplitFrom(s, sep, i, cur) ==
    IF i > Len(s) THEN <<cur>>
    ELSE IF s[i] = sep THEN <<cur>> \o SplitFrom(s, sep, i + 1, <<>>)
    ELSE SplitFrom(s, sep, i + 1, Append(cur, s[i]))

\* String.prototype.split(sep)
Split(s, sep) == SplitFrom(s, sep, 1, <<>>)

\* case folding of the /i flag, on the tokens the model uses
Lower(t) ==
    CASE t = "COURSES" -> "courses"
      [] t = "VIDEOS" -> "videos"
      [] t = "MP4" -> "mp4"
      [] t = "MOV" -> "mov"
      [] t = "AVI" -> "avi"
      [] OTHER -> t

\* tokens made of [\w-] characters only
WordTokens == {"courses", "COURSES", "videos", "VIDEOS", "c1", "c-2", "lec1",
               "intro_2", "mp4", "MP4", "mov", "MOV", "avi", "AVI", "mkv",
               "uploads", "hls"}

IsWord(part) == Len(part) > 0 /\ \A i \in 1..Len(part) : part[i] \in WordTokens

\* /^courses\/[\w-]+\/videos\/[\w-]+\.(mp4|mov|avi)$/i
validateS3Key(key) ==
    LET parts == Split(key, "/") IN
    /\ Len(parts) = 4
    /\ Len(parts[1]) = 1 /\ Lower(parts[1][1]) = "courses"
    /\ IsWord(parts[2])
    /\ Len(parts[3]) = 1 /\ Lower(parts[3][1]) = "videos"
    /\ LET f == parts[4] IN
       /\ Len(f) >= 3
       /\ IsWord(SubSeq(f, 1, Len(f) - 2))
       /\ f[Len(f) - 1] = "."
       /\ Lower(f[Len(f)]) \in {"mp4", "mov", "avi"}

GoodKey == <<"courses", "/", "c1", "/", "videos", "/", "lec1", ".", "mp4">>
BadKey == <<"uploads", "/", "lec1", ".", "mp4">>
SampleKeys == {GoodKey, BadKey}
\* a key in upper case, a key with another extension
UpperKey == <<"COURSES", "/", "c1", "/", "VIDEOS", "/", "lec1", ".", "MP4">>
MkvKey == <<"courses", "/", "c1", "/", "videos", "/", "lec1", ".", "mkv">>
JobKeys == SampleKeys \cup {UpperKey, MkvKey}

(***************************************************************************)
(* Event dispatcher: src/consumer/src/index.ts                             *)
(***************************************************************************)
MAX_RETRIES == 3
BATCH_SIZE == 5

S3Record(key) == [bucket |-> "temp-bucket", key |-> key]

RECURSIVE SeqsUpTo(_, _)
SeqsUpTo(S, n) ==
    IF n = 0 THEN {<<>>}
    ELSE LET shorter == SeqsUpTo(S, n - 1) IN
         shorter \cup {Append(s, x) : s \in {q \in shorter : Len(q) = n - 1}, x \in S}

\* A message body: text that is empty, text that is no JSON, or a JSON document.
\* A document is given by the fields the code reads.
JsonDoc(service, event, hasRecords, records) ==
    [text |-> "json", Service |-> service, Event |-> event,
     hasRecords |-> hasRecords, Records |-> records]
EmptyBody == [text |-> "", Service |-> FALSE, Event |-> "", hasRecords |-> FALSE,
              Records |-> <<>>]
GarbageBody == [text |-> "garbage", Service |-> FALSE, Event |-> "",
                hasRecords |-> FALSE, Records |-> <<>>]
\* the test notification the object store sends when notifications are set up
TestEventBody == JsonDoc(TRUE, "s3:TestEvent", FALSE, <<>>)
\* the test notification shaped as the interface description gives it
TestShapeBody == JsonDoc(TRUE, "test-event", FALSE, <<>>)
NoRecordsBody == JsonDoc(FALSE, "", FALSE, <<>>)
RecordBodies ==
    {JsonDoc(FALSE, "", TRUE, rs) :
        rs \in SeqsUpTo({S3Record(k) : k \in SampleKeys}, MaxRecords)}
Bodies == {EmptyBody, GarbageBody, TestEventBody, TestShapeBody, NoRecordsBody}
              \cup RecordBodies

\* the bodies of a single message: the notifications carry any of the JobKeys
JobBodies ==
    Bodies \cup {JsonDoc(FALSE, "", TRUE, rs) :
                    rs \in SeqsUpTo({S3Record(k) : k \in JobKeys}, MaxRecords)}

\* a rank on the bodies: the queue hands out messages in any order and in any
\* grouping, so the initial states list each multiset of bodies once
BodyRank(b) ==
    IF b = EmptyBody THEN 0
    ELSE IF b = GarbageBody THEN 1
    ELSE IF b = TestEventBody THEN 2
    ELSE IF b = TestShapeBody THEN 3
    ELSE IF b = NoRecordsBody THEN 4
    ELSE 5 + Len(b.Records)

SameRankOrder(a, b) ==
    \/ BodyRank(a) < BodyRank(b)
    \/ a = b
    \/ /\ BodyRank(a) = BodyRank(b)
       /\ \E i \in 1..Len(a.Records) :
            /\ \A j \in 1..(i - 1) : a.Records[j] = b.Records[j]
            /\ a.Records[i].key = GoodKey /\ b.Records[i].key # GoodKey

IsTestNotification(b) == b.text = "json" /\ b.Service /\ b.Event # "" /\ ~b.hasRecords

NoError == "none"

\* fault: a body that cannot be parsed is passed on
validateAndParseEvent_Lenient(b) ==
    IF b.text = "json" /\ b.Service /\ b.Event # "" /\ b.Event = "s3:TestEvent"
    THEN "Test event received"
    ELSE NoError

\* validateAndParseEvent: the error it throws, or NoError
validateAndParseEvent(b) ==
    IF b.text # "json" THEN "SyntaxError"
    ELSE IF b.Service /\ b.Event # "" /\ b.Event = "s3:TestEvent"
         THEN "Test event received"
    ELSE NoError

\* fault: no record is skipped
NextAccepted_NoSkip(records, i) == i

\* the first record at or after index i whose key validateS3Key accepts
RECURSIVE NextAccepted(_, _)
NextAccepted(records, i) ==
    IF i > Len(records) THEN i
    ELSE IF validateS3Key(records[i].key) THEN i
    ELSE NextAccepted(records, i + 1)

Accepted(b) == {i \in 1..Len(b.Records) : validateS3Key(b.Records[i].key)}

Rejected(e) == <<"rejected", e>>
Resolved == <<"resolved", NoError>>
Pending == <<"pending", NoError>>

\* the bodies of the messages of a batch: every kind of body, the notifications
\* with at most one record
BatchBodies == {b \in Bodies : Len(b.Records) <= 1}

\* the queue holds the messages Q, with bodies from B
DInit(Q, B) ==
    /\ body \in [Msgs -> B]
    /\ \A m \in Msgs \ Q : body[m] = EmptyBody
    /\ \A m, n \in Q : m < n => SameRankOrder(body[m], body[n])
    /\ inQueue = [m \in Msgs |-> m \in Q]
    /\ loopPc = "receive"
    /\ batch = {}
    /\ mpc = [m \in Msgs |-> "idle"]
    /\ rec = [m \in Msgs |-> 0]
    /\ attempt = [m \in Msgs |-> 0]
    /\ err = [m \in Msgs |-> NoError]
    /\ outcome = [m \in Msgs |-> Pending]
    /\ launchedNow = [m \in Msgs |-> {}]
    /\ launchLog = [m \in Msgs |-> <<>>]
    /\ launchCount = [m \in Msgs |-> [r \in 1..MaxRecords |-> 0]]
    /\ tasks = [m \in Msgs |-> [r \in 1..MaxRecords |-> "none"]]
    /\ visReq = [m \in Msgs |-> 0]
    /\ visExt = [m \in Msgs |-> FALSE]
    /\ escaped = FALSE

\* the catch block of processMessage is entered with error e
Throw(m, e) ==
    /\ err' = [err EXCEPT ![m] = e]
    /\ mpc' = [mpc EXCEPT ![m] = "catch"]

\* the for-loop goes on from record i: skips the records validateS3Key rejects,
\* launches the next accepted one, or leaves the loop for the delete
LoopFrom(m, i) ==
    LET n == NextAccepted(body[m].Records, i) IN
    /\ rec' = [rec EXCEPT ![m] = n]
    /\ attempt' = [attempt EXCEPT ![m] = 0]
    /\ mpc' = [mpc EXCEPT ![m] = IF n > Len(body[m].Records) THEN "delete" ELSE "launch"]
    /\ err' = err

\* processMessage up to its first external call
Begin(m) ==
    /\ loopPc = "join" /\ m \in batch /\ mpc[m] = "start"
    /\ IF body[m].text = ""
       THEN Throw(m, "Empty message body") /\ UNCHANGED <<rec, attempt>>
       ELSE IF validateAndParseEvent(body[m]) # NoError
       THEN Throw(m, validateAndParseEvent(body[m])) /\ UNCHANGED <<rec, attempt>>
       ELSE IF ~body[m].hasRecords
       THEN Throw(m, "TypeError") /\ UNCHANGED <<rec, attempt>>
       ELSE LoopFrom(m, 1)
    /\ UNCHANGED <<body, inQueue, loopPc, batch, outcome, launchedNow, launchLog,
                   tasks, launchCount, visReq, visExt, escaped, pvars, xvars>>

\* fault: the source of the job is not taken from the record
launchEcsTask_Fixed(bucketName, objectKey) ==
    [AWS_S3_TEMP_BUCKET |-> bucketName, AWS_S3_TEMP_KEY |-> GoodKey]

\* launchEcsTask: the environment the container is started with
launchEcsTask(bucketName, objectKey) ==
    [AWS_S3_TEMP_BUCKET |-> bucketName, AWS_S3_TEMP_KEY |-> objectKey]

\* ecsClient.send(RunTaskCommand) resolves
LaunchOk(m) ==
    /\ loopPc = "join" /\ m \in batch /\ mpc[m] = "launch"
    /\ launchCount[m][rec[m]] < MaxLaunches
    /\ launchedNow' = [launchedNow EXCEPT ![m] = @ \cup {rec[m]}]
    /\ launchLog' = [launchLog EXCEPT ![m] =
                       Append(@, [record |-> rec[m],
                                  environment |-> launchEcsTask(body[m].Records[rec[m]].bucket,
                                                                body[m].Records[rec[m]].key)])]
    /\ launchCount' = [launchCount EXCEPT ![m][rec[m]] = @ + 1]
    /\ tasks' = [tasks EXCEPT ![m][rec[m]] = "running"]
    /\ LoopFrom(m, rec[m] + 1)
    /\ UNCHANGED <<body, inQueue, loopPc, batch, outcome, visReq,
                   visExt, escaped, pvars, xvars>>

\* fault: the failure of the last attempt is swallowed and the loop goes on
OnLaunchFailure_Swallow(m) ==
    IF attempt[m] = MAX_RETRIES - 1
    THEN LoopFrom(m, rec[m] + 1)
    ELSE /\ attempt' = [attempt EXCEPT ![m] = @ + 1]
         /\ UNCHANGED <<rec, mpc, err>>

\* what retryWithBackoff does when attempt i of the launch has failed
OnLaunchFailure(m) ==
    IF attempt[m] = MAX_RETRIES - 1
    THEN Throw(m, "LaunchError") /\ UNCHANGED <<rec, attempt>>
    ELSE /\ attempt' = [attempt EXCEPT ![m] = @ + 1]
         /\ UNCHANGED <<rec, mpc, err>>

\* ecsClient.send(RunTaskCommand) rejects
LaunchFail(m) ==
    /\ loopPc = "join" /\ m \in batch /\ mpc[m] = "launch"
    /\ OnLaunchFailure(m)
    /\ UNCHANGED <<body, inQueue, loopPc, batch, outcome, launchedNow, launchLog,
                   tasks, launchCount, visReq, visExt, escaped, pvars, xvars>>

\* DeleteMessageCommand resolves
DeleteOk(m) ==
    /\ loopPc = "join" /\ m \in batch /\ mpc[m] = "delete"
    /\ inQueue' = [inQueue EXCEPT ![m] = FALSE]
    /\ outcome' = [outcome EXCEPT ![m] = Resolved]
    /\ mpc' = [mpc EXCEPT ![m] = "done"]
    /\ UNCHANGED <<body, loopPc, batch, rec, attempt, err, launchedNow, launchLog,
                   tasks, launchCount, visReq, visExt, escaped, pvars, xvars>>

\* fault: a rejected delete is swallowed, processMessage resolves
DeleteFail_Swallow(m) ==
    /\ loopPc = "join" /\ m \in batch /\ mpc[m] = "delete"
    /\ outcome' = [outcome EXCEPT ![m] = Resolved]
    /\ mpc' = [mpc EXCEPT ![m] = "done"]
    /\ UNCHANGED <<body, inQueue, loopPc, batch, rec, attempt, err, launchedNow, launchLog,
                   tasks, launchCount, visReq, visExt, escaped, pvars, xvars>>

\* DeleteMessageCommand rejects
DeleteFail(m) ==
    /\ loopPc = "join" /\ m \in batch /\ mpc[m] = "delete"
    /\ Throw(m, "DeleteError")
    /\ UNCHANGED <<body, inQueue, loopPc, batch, rec, attempt, outcome,
                   launchedNow, launchLog, tasks, launchCount, visReq, visExt, escaped, pvars, xvars>>

\* catch block: ChangeMessageVisibilityCommand is sent
ExtendSend(m) ==
    /\ loopPc = "join" /\ m \in batch /\ mpc[m] = "catch"
    /\ visReq' = [visReq EXCEPT ![m] = @ + 1]
    /\ mpc' = [mpc EXCEPT ![m] = "extending"]
    /\ UNCHANGED <<body, inQueue, loopPc, batch, rec, attempt, err,
                   outcome, launchedNow, launchLog, tasks, launchCount, visExt, escaped, pvars, xvars>>

\* fault: the error of the visibility call replaces the caught error
Rethrown_Last(caught, visibilityError) ==
    IF visibilityError # NoError THEN visibilityError ELSE caught

\* the error processMessage rejects with, given the caught error and the error
\* of the visibility call (NoError when it succeeded)
Rethrown(caught, visibilityError) == caught

\* ChangeMessageVisibilityCommand resolves; throw error
ExtendOk(m) ==
    /\ loopPc = "join" /\ m \in batch /\ mpc[m] = "extending"
    /\ visExt' = [visExt EXCEPT ![m] = TRUE]
    /\ outcome' = [outcome EXCEPT ![m] = Rejected(Rethrown(err[m], NoError))]
    /\ mpc' = [mpc EXCEPT ![m] = "done"]
    /\ UNCHANGED <<body, inQueue, loopPc, batch, rec, attempt, err,
                   launchedNow, launchLog, tasks, launchCount, visReq, escaped, pvars, xvars>>

\* ChangeMessageVisibilityCommand rejects; the inner catch logs; throw error
ExtendFail(m) ==
    /\ loopPc = "join" /\ m \in batch /\ mpc[m] = "extending"
    /\ outcome' = [outcome EXCEPT ![m] = Rejected(Rethrown(err[m], "VisibilityError"))]
    /\ mpc' = [mpc EXCEPT ![m] = "done"]
    /\ UNCHANGED <<body, inQueue, loopPc, batch, rec, attempt, err,
                   launchedNow, launchLog, tasks, launchCount, visReq, visExt, escaped, pvars, xvars>>

\* fault: the mapped promise has no catch handler
CatchHandler_Missing(settled) == settled

\* processMessage(message).catch(error => console.error(...))
CatchHandler(settled) == IF settled[1] = "rejected" THEN Resolved ELSE settled

\* the promise of message m that Promise.all joins
Mapped(m) == CatchHandler(outcome[m])

\* sqsClient.send(receiveCommand) resolves with the messages S
Receive(S) ==
    /\ loopPc = "receive"
    /\ S \subseteq {m \in Msgs : inQueue[m]}
    /\ Cardinality(S) <= BATCH_SIZE
    /\ IF S = {}
       THEN UNCHANGED <<loopPc, batch, mpc, rec, attempt, err, outcome,
                        launchedNow, launchLog, visReq, visExt>>
       ELSE /\ batch' = S
            /\ loopPc' = "join"
            /\ mpc' = [m \in Msgs |-> IF m \in S THEN "start" ELSE mpc[m]]
            /\ rec' = [m \in Msgs |-> IF m \in S THEN 0 ELSE rec[m]]
            /\ attempt' = [m \in Msgs |-> IF m \in S THEN 0 ELSE attempt[m]]
            /\ err' = [m \in Msgs |-> IF m \in S THEN NoError ELSE err[m]]
            /\ outcome' = [m \in Msgs |-> IF m \in S THEN Pending ELSE outcome[m]]
            /\ launchedNow' = [m \in Msgs |-> IF m \in S THEN {} ELSE launchedNow[m]]
            /\ launchLog' = [m \in Msgs |-> IF m \in S THEN <<>> ELSE launchLog[m]]
            /\ visReq' = [m \in Msgs |-> IF m \in S THEN 0 ELSE visReq[m]]
            /\ visExt' = [m \in Msgs |-> IF m \in S THEN FALSE ELSE visExt[m]]
    /\ UNCHANGED <<body, inQueue, tasks, launchCount, escaped, pvars, xvars>>

\* fault: the rejection of the receive call is not caught, init's promise
\* rejects and the loop is over
ReceiveFail_Terminates ==
    /\ loopPc = "receive"
    /\ loopPc' = "stopped"
    /\ UNCHANGED <<body, inQueue, batch, mpc, rec, attempt, err, outcome,
                   launchedNow, launchLog, tasks, launchCount, visReq, visExt, escaped, pvars, xvars>>

\* sqsClient.send(receiveCommand) rejects: catch, sleep(1000)
ReceiveFail ==
    /\ loopPc = "receive"
    /\ loopPc' = "sleep"
    /\ UNCHANGED <<body, inQueue, batch, mpc, rec, attempt, err, outcome,
                   launchedNow, launchLog, tasks, launchCount, visReq, visExt, escaped, pvars, xvars>>

\* the sleep of the catch block ends, next iteration
Wake ==
    /\ loopPc = "sleep"
    /\ loopPc' = "receive"
    /\ batch' = {}
    /\ UNCHANGED <<body, inQueue, mpc, rec, attempt, err, outcome,
                   launchedNow, launchLog, tasks, launchCount, visReq, visExt, escaped, pvars, xvars>>

\* await Promise.all(...): rejects with the first mapped promise that rejects,
\* resolves when all have resolved; the frames of the settled processMessage
\* calls are gone with it
Join ==
    /\ loopPc = "join"
    /\ IF \E m \in batch : Mapped(m)[1] = "rejected"
       THEN /\ escaped' = TRUE
            /\ loopPc' = "sleep"
       ELSE /\ \A m \in batch : Mapped(m)[1] = "resolved"
            /\ escaped' = escaped
            /\ loopPc' = "receive"
    /\ batch' = {}
    /\ mpc' = [m \in Msgs |-> IF m \in batch THEN "idle" ELSE mpc[m]]
    /\ rec' = [m \in Msgs |-> IF m \in batch THEN 0 ELSE rec[m]]
    /\ attempt' = [m \in Msgs |-> IF m \in batch THEN 0 ELSE attempt[m]]
    /\ err' = [m \in Msgs |-> IF m \in batch THEN NoError ELSE err[m]]
    /\ outcome' = [m \in Msgs |-> IF m \in batch THEN Pending ELSE outcome[m]]
    /\ launchedNow' = [m \in Msgs |-> IF m \in batch THEN {} ELSE launchedNow[m]]
    /\ launchLog' = [m \in Msgs |-> IF m \in batch THEN <<>> ELSE launchLog[m]]
    /\ visReq' = [m \in Msgs |-> IF m \in batch THEN 0 ELSE visReq[m]]
    /\ visExt' = [m \in Msgs |-> IF m \in batch THEN FALSE ELSE visExt[m]]
    /\ UNCHANGED <<body, inQueue, tasks, launchCount, pvars, xvars>>

\* the launched container runs the pipeline: init() of the transcoder ends
\* normally when processVideo resolves
TaskSucceed(m, r) ==
    /\ tasks[m][r] = "running"
    /\ tasks' = [tasks EXCEPT ![m][r] = "succeeded"]
    /\ UNCHANGED <<launchCount, body, inQueue, loopPc, batch, mpc, rec, attempt, err,
                   outcome, launchedNow, launchLog, visReq, visExt, escaped, pvars, xvars>>

\* init() of the transcoder: processVideo throws, process.exit(1)
TaskFail(m, r) ==
    /\ tasks[m][r] = "running"
    /\ tasks' = [tasks EXCEPT ![m][r] = "failed"]
    /\ UNCHANGED <<launchCount, body, inQueue, loopPc, batch, mpc, rec, attempt, err,
                   outcome, launchedNow, launchLog, visReq, visExt, escaped, pvars, xvars>>

(***************************************************************************)
(* Transcode pipeline: src/transcoder/index.js                             *)
(***************************************************************************)
UPLOAD_CONCURRENCY == 5
PIPELINE_MAX_RETRIES == 3

RESOLUTIONS == <<
    [name |-> "1080p", width |-> 1920, height |-> 1080,
     bitrate |-> <<"5", "0", "0", "0", "k">>],
    [name |-> "720p", width |-> 1280, height |-> 720,
     bitrate |-> <<"2", "8", "0", "0", "k">>],
    [name |-> "480p", width |-> 854, height |-> 480,
     bitrate |-> <<"1", "4", "0", "0", "k">>],
    [name |-> "360p", width |-> 640, height |-> 360,
     bitrate |-> <<"8", "0", "0", "k">>] >>

Variants == 1..Len(RESOLUTIONS)
\* testResolution = RESOLUTIONS[RESOLUTIONS.length - 1]
testResolution == Len(RESOLUTIONS)
\* remainingResolutions = RESOLUTIONS.slice(0, -1)
remainingResolutions == 1..(Len(RESOLUTIONS) - 1)

\* process.env.AWS_S3_TEMP_KEY
sourceKey == GoodKey

RECURSIVE LastIndexOf(_, _, _)
LastIndexOf(s, t, i) ==
    IF i = 0 THEN 0 ELSE IF s[i] = t THEN i ELSE LastIndexOf(s, t, i - 1)

\* fault: the extension stays in the name
PathParseName_Keep(base) == base

\* path.parse(base).name: the base name without its last extension
PathParseName(base) ==
    LET d == LastIndexOf(base, ".", Len(base)) IN
    IF d > 1 THEN SubSeq(base, 1, d - 1) ELSE base

\* generateS3Paths(originalKey)
generateS3Paths(key) ==
    LET keyParts == Split(key, "/") IN
    [courseId |-> keyParts[2],
     filename |-> PathParseName(keyParts[Len(keyParts)])]

getHLSBasePath(paths) == paths.courseId \o <<"/", "hls", "/">> \o paths.filename
getMasterPlaylistKey(paths) ==
    paths.courseId \o <<"/", "hls", "/">> \o paths.filename \o <<"/", "master", ".", "m3u8">>
getVariantPlaylistKey(paths, resolution) ==
    paths.courseId \o <<"/", "hls", "/">> \o paths.filename
        \o <<"/", resolution, "/", "playlist", ".", "m3u8">>

s3Paths == generateS3Paths(sourceKey)

\* the files the encoder writes into the directory of a variant, in the order
\* readdir lists them: playlist.m3u8, segment_000.ts, segment_001.ts, ...
NumFiles == 1 + NumSegments
FileIds == 1..NumFiles
FileName(f) ==
    IF f = 1 THEN <<"playlist", ".", "m3u8">>
    ELSE <<"segment_00" \o ToString(f - 2), ".", "ts">>

\* uploadHLSFiles: s3Key = `${s3BasePath}/${resolution.name}/${file}`
UploadKey(v, f) ==
    getHLSBasePath(s3Paths) \o <<"/", RESOLUTIONS[v].name, "/">> \o FileName(f)

\* fault: the files are not cut into chunks
ChunkOf_Single(f) == 1

\* uploadHLSFiles: chunks of UPLOAD_CONCURRENCY files
ChunkOf(f) == ((f - 1) \div UPLOAD_CONCURRENCY) + 1
NumChunks == ChunkOf(NumFiles)
ChunkFiles(k) == {f \in FileIds : ChunkOf(f) = k}

NoUploads == [f \in FileIds |-> "pending"]

PIdle ==
    /\ ppc = "idle" /\ run = 0 /\ store = {} /\ workDir = FALSE /\ workFiles = {}
    /\ sourceFile = FALSE /\ originalVideoPath = FALSE /\ dlAttempt = 0
    /\ dlEmpty = 0
    /\ vpc = [v \in Variants |-> "idle"]
    /\ upl = [v \in Variants |-> NoUploads]
    /\ chunkNo = [v \in Variants |-> 0]
    /\ encoderRuns = [v \in Variants |-> 0]
    /\ probes = [v \in Variants |-> 0]
    /\ exists = [v \in Variants |-> "unknown"]
    /\ puts = {} /\ masterPut = FALSE /\ result = "none" /\ prevOk = FALSE

\* a container starts: init, validateEnvironment, processVideo up to the
\* download (mkdtemp creates the workspace); the local disk is the container's,
\* the destination bucket is what earlier runs left
StartRun ==
    /\ ppc \in {"idle", "exited"}
    /\ run < MaxRuns
    /\ run' = run + 1
    /\ prevOk' = (result = "ok")
    /\ ppc' = "download"
    /\ workDir' = TRUE
    /\ workFiles' = {}
    /\ sourceFile' = FALSE
    /\ originalVideoPath' = FALSE
    /\ dlAttempt' = 1
    /\ dlEmpty' = 0
    /\ vpc' = [v \in Variants |-> "idle"]
    /\ upl' = [v \in Variants |-> NoUploads]
    /\ chunkNo' = [v \in Variants |-> 0]
    /\ encoderRuns' = [v \in Variants |-> 0]
    /\ probes' = [v \in Variants |-> 0]
    /\ exists' = [v \in Variants |-> "unknown"]
    /\ puts' = {}
    /\ masterPut' = FALSE
    /\ result' = "none"
    /\ UNCHANGED <<store, dvars, xvars>>

\* processVideo throws: catch logs and rethrows, finally starts fs.rm
ThrowToFinally ==
    /\ ppc' = "cleanup"
    /\ result' = "failed"

\* downloadFromS3: an attempt writes the file and finds it non-empty;
\* originalVideoPath = await downloadFromS3(...)
DownloadOk ==
    /\ ppc = "download"
    /\ sourceFile' = TRUE
    /\ originalVideoPath' = TRUE
    /\ ppc' = "mkdirs"
    /\ UNCHANGED <<run, store, workDir, workFiles, dlAttempt, dlEmpty, vpc, upl, chunkNo,
                   encoderRuns, probes, exists, puts, masterPut, result, prevOk, dvars, xvars>>

\* fault: the first failed attempt is the last
OnDownloadFailure_NoRetry == ThrowToFinally /\ UNCHANGED dlAttempt

\* withRetry: the attempt has failed
OnDownloadFailure ==
    IF dlAttempt = PIPELINE_MAX_RETRIES
    THEN ThrowToFinally /\ UNCHANGED dlAttempt
    ELSE dlAttempt' = dlAttempt + 1 /\ UNCHANGED <<ppc, result>>

\* downloadFromS3: GetObject rejects, nothing is written
DownloadSendFail ==
    /\ ppc = "download"
    /\ OnDownloadFailure
    /\ UNCHANGED <<run, store, workDir, workFiles, sourceFile, originalVideoPath, dlEmpty, vpc, upl, chunkNo,
                   encoderRuns, probes, exists, puts, masterPut, prevOk, dvars, xvars>>

\* downloadFromS3: the file is written and has size 0
DownloadEmpty ==
    /\ ppc = "download"
    /\ sourceFile' = TRUE
    /\ dlEmpty' = dlEmpty + 1
    /\ OnDownloadFailure
    /\ UNCHANGED originalVideoPath
    /\ UNCHANGED <<run, store, workDir, workFiles, vpc, upl, chunkNo,
                   encoderRuns, probes, exists, puts, masterPut, prevOk, dvars, xvars>>

\* fs.mkdir of the variant directories
MkdirsOk ==
    /\ ppc = "mkdirs"
    /\ ppc' = "canary"
    /\ UNCHANGED <<run, store, workDir, workFiles, sourceFile, originalVideoPath, dlAttempt, dlEmpty, vpc, upl,
                   chunkNo, encoderRuns, probes, exists, puts, masterPut, result, prevOk, dvars, xvars>>

MkdirsFail ==
    /\ ppc = "mkdirs"
    /\ ThrowToFinally
    /\ UNCHANGED <<run, store, workDir, workFiles, sourceFile, originalVideoPath, dlAttempt, dlEmpty, vpc, upl,
                   chunkNo, encoderRuns, probes, exists, puts, masterPut, prevOk, dvars, xvars>>

\* the variant tasks of remainingResolutions.map(async ...) start: each runs to
\* its first await, the HeadObject of checkFileExists
StartFanOut ==
    /\ ppc' = "join"
    /\ vpc' = [v \in Variants |->
                 IF v \in remainingResolutions THEN "probe"
                 ELSE IF v = testResolution THEN "done" ELSE vpc[v]]
    /\ probes' = [v \in Variants |-> IF v \in remainingResolutions THEN 1 ELSE probes[v]]
    /\ exists' = exists
    /\ result' = result

\* the test transcode succeeds
CanaryOk ==
    /\ ppc = "canary"
    /\ encoderRuns' = [encoderRuns EXCEPT ![testResolution] = @ + 1]
    /\ workFiles' = workFiles \cup {testResolution}
    /\ StartFanOut
    /\ UNCHANGED <<run, store, workDir, sourceFile, originalVideoPath, dlAttempt, dlEmpty, upl, chunkNo, puts,
                   masterPut, prevOk, dvars, xvars>>

\* fault: the failure of the test transcode is not rethrown, the remaining
\* resolutions are processed
OnCanaryFailure_Continue ==
    /\ ppc' = "join"
    /\ vpc' = [v \in Variants |->
                 IF v \in remainingResolutions THEN "probe"
                 ELSE IF v = testResolution THEN "failed" ELSE vpc[v]]
    /\ probes' = [v \in Variants |-> IF v \in remainingResolutions THEN 1 ELSE probes[v]]
    /\ exists' = exists
    /\ result' = result

\* catch of the test transcode: throw new Error(`Test transcoding failed: ...`)
OnCanaryFailure ==
    /\ ThrowToFinally
    /\ vpc' = [vpc EXCEPT ![testResolution] = "failed"]
    /\ UNCHANGED <<probes, exists>>

\* the test transcode fails: ffprobe fails (ran = 0, the encoder is not
\* started) or the encoder fails (ran = 1)
CanaryFail(ran) ==
    /\ ppc = "canary"
    /\ encoderRuns' = [encoderRuns EXCEPT ![testResolution] = @ + ran]
    /\ OnCanaryFailure
    /\ UNCHANGED <<run, store, workDir, workFiles, sourceFile, originalVideoPath, dlAttempt, dlEmpty, upl,
                   chunkNo, puts, masterPut, prevOk, dvars, xvars>>

\* the process runs and promises can settle
Alive == ppc \in {"join", "cleanup"}

\* fault: the join waits for every task and goes on whatever their outcome
SettleTask_AllSettled(v, how) ==
    /\ vpc' = [vpc EXCEPT ![v] = how]
    /\ IF ppc # "join" THEN UNCHANGED <<ppc, result>>
       ELSE IF \A w \in remainingResolutions \ {v} : vpc[w] \in {"skipped", "done", "failed"}
       THEN ppc' = "master" /\ result' = result
       ELSE UNCHANGED <<ppc, result>>

\* the task of variant v settles; Promise.all(transcodePromises) rejects with
\* the first task that fails and resolves when all have resolved
SettleTask(v, how) ==
    /\ vpc' = [vpc EXCEPT ![v] = how]
    /\ IF ppc # "join" THEN UNCHANGED <<ppc, result>>
       ELSE IF how = "failed" THEN ThrowToFinally
       ELSE IF \A w \in remainingResolutions \ {v} : vpc[w] \in {"skipped", "done"}
       THEN ppc' = "master" /\ result' = result
       ELSE UNCHANGED <<ppc, result>>

\* fault: every error of the probe is taken for "the object does not exist"
checkFileExists_Swallow(errorName) == "false"

\* checkFileExists when HeadObject rejects with an error of the given name:
\* returns false for NotFound, rethrows any other error
checkFileExists(errorName) == IF errorName = "NotFound" THEN "false" ELSE "threw"

\* the variant task after HeadObject has rejected: transcodeToHLS starts with
\* ffprobe, or the error leaves the task
AfterProbeRejected(v, errorName) ==
    /\ exists' = [exists EXCEPT ![v] = checkFileExists(errorName)]
    /\ IF checkFileExists(errorName) = "false"
       THEN /\ vpc' = [vpc EXCEPT ![v] = "ffprobe"]
            /\ UNCHANGED <<ppc, result>>
       ELSE SettleTask(v, "failed")

\* checkFileExists: HeadObject resolves, the variant is skipped
ProbeFound(v) ==
    /\ Alive /\ vpc[v] = "probe"
    /\ getVariantPlaylistKey(s3Paths, RESOLUTIONS[v].name) \in store
    /\ exists' = [exists EXCEPT ![v] = "true"]
    /\ SettleTask(v, "skipped")
    /\ UNCHANGED <<run, store, workDir, workFiles, sourceFile, originalVideoPath, dlAttempt, dlEmpty, upl,
                   chunkNo, encoderRuns, probes, puts, masterPut, prevOk, dvars, xvars>>

\* checkFileExists: HeadObject rejects with NotFound; transcodeToHLS starts
\* with ffprobe
ProbeNotFound(v) ==
    /\ Alive /\ vpc[v] = "probe"
    /\ getVariantPlaylistKey(s3Paths, RESOLUTIONS[v].name) \notin store
    /\ AfterProbeRejected(v, "NotFound")
    /\ UNCHANGED <<run, store, workDir, workFiles, sourceFile, originalVideoPath, dlAttempt, dlEmpty, upl,
                   chunkNo, encoderRuns, probes, puts, masterPut, prevOk, dvars, xvars>>

\* checkFileExists: HeadObject rejects with another error, which is rethrown
ProbeError(v) ==
    /\ Alive /\ vpc[v] = "probe"
    /\ AfterProbeRejected(v, "Forbidden")
    /\ UNCHANGED <<run, store, workDir, workFiles, sourceFile, originalVideoPath, dlAttempt, dlEmpty, upl,
                   chunkNo, encoderRuns, probes, puts, masterPut, prevOk, dvars, xvars>>

\* transcodeToHLS: ffprobe fails, the encoder is not started
EncodeProbeFail(v) ==
    /\ Alive /\ vpc[v] = "ffprobe"
    /\ SettleTask(v, "failed")
    /\ UNCHANGED <<run, store, workDir, workFiles, sourceFile, originalVideoPath, dlAttempt, dlEmpty, upl,
                   chunkNo, encoderRuns, probes, exists, puts, masterPut, prevOk, dvars, xvars>>

\* transcodeToHLS: ffprobe succeeds, the encoder runs
EncodeBegin(v) ==
    /\ Alive /\ vpc[v] = "ffprobe"
    /\ vpc' = [vpc EXCEPT ![v] = "encoding"]
    /\ encoderRuns' = [encoderRuns EXCEPT ![v] = @ + 1]
    /\ UNCHANGED <<ppc, run, store, workDir, workFiles, sourceFile, originalVideoPath, dlAttempt, dlEmpty, upl,
                   chunkNo, probes, exists, puts, masterPut, result, prevOk, dvars, xvars>>

\* the encoder ends; uploadHLSFiles lists the files and starts the uploads of
\* the first chunk
EncodeOk(v) ==
    /\ Alive /\ vpc[v] = "encoding"
    /\ workFiles' = workFiles \cup {v}
    /\ vpc' = [vpc EXCEPT ![v] = "uploading"]
    /\ chunkNo' = [chunkNo EXCEPT ![v] = 1]
    /\ upl' = [upl EXCEPT ![v] =
                 [f \in FileIds |-> IF f \in ChunkFiles(1) THEN "inflight" ELSE "pending"]]
    /\ UNCHANGED <<ppc, run, store, workDir, sourceFile, originalVideoPath, dlAttempt, dlEmpty, encoderRuns,
                   probes, exists, puts, masterPut, result, prevOk, dvars, xvars>>

\* the encoder fails
EncodeFail(v) ==
    /\ Alive /\ vpc[v] = "encoding"
    /\ SettleTask(v, "failed")
    /\ UNCHANGED <<run, store, workDir, workFiles, sourceFile, originalVideoPath, dlAttempt, dlEmpty, upl,
                   chunkNo, encoderRuns, probes, exists, puts, masterPut, prevOk, dvars, xvars>>

\* uploadToS3 of file f resolves (withRetry: one of its attempts put the
\* object); when it was the last of its chunk, the next chunk starts or
\* uploadHLSFiles returns
UploadOk(v, f) ==
    /\ Alive /\ upl[v][f] = "inflight"
    /\ store' = store \cup {UploadKey(v, f)}
    /\ puts' = puts \cup {UploadKey(v, f)}
    /\ LET chunkDone == \A g \in ChunkFiles(chunkNo[v]) \ {f} : upl[v][g] = "done" IN
       IF vpc[v] = "uploading" /\ chunkDone
       THEN IF chunkNo[v] < NumChunks
            THEN /\ chunkNo' = [chunkNo EXCEPT ![v] = @ + 1]
                 /\ upl' = [upl EXCEPT ![v] =
                              [g \in FileIds |->
                                 IF g = f THEN "done"
                                 ELSE IF g \in ChunkFiles(chunkNo[v] + 1) THEN "inflight"
                                 ELSE upl[v][g]]]
                 /\ UNCHANGED <<vpc, ppc, result>>
            ELSE /\ upl' = [upl EXCEPT ![v][f] = "done"]
                 /\ SettleTask(v, "done")
                 /\ UNCHANGED chunkNo
       ELSE /\ upl' = [upl EXCEPT ![v][f] = "done"]
            /\ UNCHANGED <<vpc, chunkNo, ppc, result>>
    /\ UNCHANGED <<run, workDir, workFiles, sourceFile, originalVideoPath, dlAttempt, dlEmpty, encoderRuns,
                   probes, exists, masterPut, prevOk, dvars, xvars>>

\* uploadToS3 of file f rejects (withRetry: every attempt failed); the
\* Promise.all of the chunk rejects, the other uploads of the chunk go on
UploadFail(v, f) ==
    /\ Alive /\ upl[v][f] = "inflight"
    /\ upl' = [upl EXCEPT ![v][f] = "failed"]
    /\ IF vpc[v] = "uploading"
       THEN SettleTask(v, "failed")
       ELSE UNCHANGED <<vpc, ppc, result>>
    /\ UNCHANGED <<run, store, workDir, workFiles, sourceFile, originalVideoPath, dlAttempt, dlEmpty, chunkNo,
                   encoderRuns, probes, exists, puts, masterPut, prevOk, dvars, xvars>>

\* generateMasterPlaylist, fs.writeFile, uploadToS3 of the master manifest;
\* return true, finally
MasterOk ==
    /\ ppc = "master"
    /\ store' = store \cup {getMasterPlaylistKey(s3Paths)}
    /\ masterPut' = TRUE
    /\ ppc' = "cleanup"
    /\ result' = "ok"
    /\ UNCHANGED <<run, workDir, workFiles, sourceFile, originalVideoPath, dlAttempt, dlEmpty, vpc, upl, chunkNo,
                   encoderRuns, probes, exists, puts, prevOk, dvars, xvars>>

\* writing or uploading the master manifest fails
MasterFail ==
    /\ ppc = "master"
    /\ ThrowToFinally
    /\ UNCHANGED <<run, store, workDir, workFiles, sourceFile, originalVideoPath, dlAttempt, dlEmpty, vpc, upl,
                   chunkNo, encoderRuns, probes, exists, puts, masterPut, prevOk, dvars, xvars>>

\* finally: fs.rm(workDir) resolves; processVideo settles and the process ends
\* (init: process.exit(1) when processVideo threw)
RmOk ==
    /\ ppc = "cleanup"
    /\ workDir' = FALSE
    /\ workFiles' = {}
    /\ ppc' = "exited"
    /\ UNCHANGED <<run, store, sourceFile, originalVideoPath, dlAttempt, dlEmpty, vpc, upl, chunkNo, encoderRuns,
                   probes, exists, puts, masterPut, result, prevOk, dvars, xvars>>

\* finally: fs.rm(workDir) rejects; the inner catch warns; processVideo settles
\* and the process ends
RmFail ==
    /\ ppc = "cleanup"
    /\ ppc' = "exited"
    /\ UNCHANGED <<run, store, workDir, workFiles, sourceFile, originalVideoPath, dlAttempt, dlEmpty, vpc, upl,
                   chunkNo, encoderRuns, probes, exists, puts, masterPut, result, prevOk, dvars, xvars>>

(***************************************************************************)
(* The retry executors: withRetry (src/transcoder/index.js) and            *)
(* retryWithBackoff (src/consumer/src/index.ts), called with an operation  *)
(* whose invocations resolve or reject in any way                          *)
(***************************************************************************)
Executors == {"withRetry", "retryWithBackoff"}
\* the errors and the values an invocation of the operation can settle with
OpErrors == {"E1", "E2"}
OpValues == {"v1", "v2"}

ResolvedWith(v) == <<"resolved", v>>

\* no executor is running
RetryNone ==
    [executor |-> "none", maxRetries |-> 0, pc |-> "idle", attempt |-> 0, i |-> 0,
     lastError |-> NoError, calls |-> <<>>, waits |-> <<>>, settled |-> Pending]
RetryIdle == retry = RetryNone

\* the loop condition: attempt <= maxRetries (withRetry), i < retries
\* (retryWithBackoff)
LoopCondition(r) ==
    IF r.executor = "withRetry" THEN r.attempt <= r.maxRetries ELSE r.i < r.maxRetries

\* the statement after the loop: throw lastError (withRetry), throw new
\* Error('Retry failed') (retryWithBackoff)
AfterLoop(r) ==
    IF r.executor = "withRetry" THEN Rejected(r.lastError) ELSE Rejected("Retry failed")

\* the head of the for-loop is evaluated: the operation is invoked, or the loop
\* is left
LoopHead(r) ==
    IF LoopCondition(r) THEN [r EXCEPT !.pc = "call"]
    ELSE [r EXCEPT !.pc = "done", !.settled = AfterLoop(r)]

\* executor ex is called with the attempt limit n
RetryCall(ex, n) ==
    LoopHead([RetryNone EXCEPT !.executor = ex, !.maxRetries = n,
                               !.attempt = IF ex = "withRetry" THEN 1 ELSE 0])

\* CONFIG.RETRY_DELAY, in ms
RETRY_DELAY == 1000

MinOf(a, b) == IF a <= b THEN a ELSE b

\* fault: the delay has no ceiling
Delay_Uncapped(r) ==
    IF r.executor = "withRetry" THEN RETRY_DELAY * 2^(r.attempt - 1) ELSE 1000 * 2^(r.i)

\* the delay computed in the catch block, in ms:
\* Math.min(CONFIG.RETRY_DELAY * Math.pow(2, attempt - 1), 10000) (withRetry),
\* Math.min(1000 * Math.pow(2, i), 5000) (retryWithBackoff)
Delay(r) ==
    IF r.executor = "withRetry" THEN MinOf(RETRY_DELAY * 2^(r.attempt - 1), 10000)
    ELSE MinOf(1000 * 2^(r.i), 5000)

\* fault: no attempt is taken for the last one
LastAttempt_Never(r) == FALSE

\* the catch block finds the failed attempt to be the last one:
\* attempt === maxRetries (withRetry), i === retries - 1 (retryWithBackoff)
LastAttempt(r) ==
    IF r.executor = "withRetry" THEN r.attempt = r.maxRetries
    ELSE r.i = r.maxRetries - 1

\* return await operation(): the invocation resolves with v
OperationResolves(v) ==
    /\ retry.pc = "call"
    /\ retry' = [retry EXCEPT !.calls = Append(@, <<"ok", v>>),
                              !.settled = ResolvedWith(v), !.pc = "done"]
    /\ UNCHANGED <<dvars, pvars, mvars, kvars, uvars, hvars>>

\* the invocation rejects with e: the catch block records it, and on the last
\* attempt breaks to throw lastError (withRetry) or throws it (retryWithBackoff);
\* otherwise it computes the delay and sleeps
OperationRejects(e) ==
    /\ retry.pc = "call"
    /\ LET caught == [retry EXCEPT !.calls = Append(@, <<"err", e>>),
                                   !.lastError = IF retry.executor = "withRetry"
                                                 THEN e ELSE @] IN
       retry' = IF LastAttempt(caught)
                THEN [caught EXCEPT !.pc = "done", !.settled = Rejected(e)]
                ELSE [caught EXCEPT !.pc = "sleep", !.waits = Append(@, Delay(caught))]
    /\ UNCHANGED <<dvars, pvars, mvars, kvars, uvars, hvars>>

\* the delay ends: attempt++ (i++), next iteration
DelayEnds ==
    /\ retry.pc = "sleep"
    /\ retry' = LoopHead([retry EXCEPT !.attempt = IF retry.executor = "withRetry"
                                                   THEN @ + 1 ELSE @,
                                       !.i = IF retry.executor = "withRetry"
                                             THEN @ ELSE @ + 1])
    /\ UNCHANGED <<dvars, pvars, mvars, kvars, uvars, hvars>>

(***************************************************************************)
(* The master manifest: generateMasterPlaylist (src/transcoder/index.js)   *)
(***************************************************************************)
Digits == <<"0", "1", "2", "3", "4", "5", "6", "7", "8", "9">>
IsDigit(c) == \E d \in 1..Len(Digits) : Digits[d] = c
DigitValue(c) == (CHOOSE d \in 1..Len(Digits) : Digits[d] = c) - 1

\* the value of the digits of chars from position i on, up to the first
\* character that is no digit
RECURSIVE ParseDigits(_, _, _)
ParseDigits(chars, i, acc) ==
    IF i > Len(chars) \/ ~IsDigit(chars[i]) THEN acc
    ELSE ParseDigits(chars, i + 1, acc * 10 + DigitValue(chars[i]))

\* parseInt(string): the number the leading digits spell
ParseInt(chars) ==
    IF Len(chars) = 0 \/ ~IsDigit(chars[1]) THEN "NaN" ELSE ParseDigits(chars, 1, 0)

\* processVideo: the variant generateMasterPlaylist gets for a resolution
MasterVariant(res) ==
    [resolution |-> ToString(res.width) \o "x" \o ToString(res.height),
     bandwidth |-> ParseInt(res.bitrate) * 1000]

\* RESOLUTIONS.map(res => ({resolution, bandwidth}))
masterVariants == [i \in 1..Len(RESOLUTIONS) |-> MasterVariant(RESOLUTIONS[i])]

\* a line of the manifest: a tag with its attributes, a URI, or an empty line
TagLine(tag) == [tag |-> tag, BANDWIDTH |-> 0, RESOLUTION |-> "", uri |-> <<>>]
StreamInfLine(bandwidth, resolution) ==
    [tag |-> "#EXT-X-STREAM-INF", BANDWIDTH |-> bandwidth, RESOLUTION |-> resolution,
     uri |-> <<>>]
UriLine(uri) == [tag |-> "", BANDWIDTH |-> 0, RESOLUTION |-> "", uri |-> uri]
EmptyLine == UriLine(<<>>)

PlaylistHeader ==
    <<TagLine("#EXTM3U"), TagLine("#EXT-X-VERSION:3"),
      TagLine("#EXT-X-INDEPENDENT-SEGMENTS"), EmptyLine>>

\* the two lines variants.forEach appends for one variant
VariantLines(v) ==
    <<StreamInfLine(v.bandwidth, v.resolution),
      UriLine(<<v.resolution, "/", "playlist", ".", "m3u8">>)>>

\* fault: the variants are appended last to first
RECURSIVE generateMasterPlaylist_Reversed(_)
generateMasterPlaylist_Reversed(vs) ==
    IF Len(vs) = 0 THEN PlaylistHeader
    ELSE generateMasterPlaylist_Reversed(Tail(vs)) \o VariantLines(Head(vs))

\* generateMasterPlaylist(variants)
RECURSIVE generateMasterPlaylist(_)
generateMasterPlaylist(vs) ==
    IF Len(vs) = 0 THEN PlaylistHeader
    ELSE generateMasterPlaylist(SubSeq(vs, 1, Len(vs) - 1)) \o VariantLines(vs[Len(vs)])

\* masterPlaylist of processVideo
masterPlaylist == generateMasterPlaylist(masterVariants)

\* the stream-info entries of a manifest, in order: each #EXT-X-STREAM-INF tag
\* with the URI line that follows it
RECURSIVE StreamEntriesFrom(_, _)
StreamEntriesFrom(lines, i) ==
    IF i > Len(lines) THEN <<>>
    ELSE IF lines[i].tag = "#EXT-X-STREAM-INF"
    THEN <<[bandwidth |-> lines[i].BANDWIDTH, resolution |-> lines[i].RESOLUTION,
            uri |-> IF i < Len(lines) THEN lines[i + 1].uri ELSE <<>>]>>
         \o StreamEntriesFrom(lines, i + 1)
    ELSE StreamEntriesFrom(lines, i + 1)
StreamEntries(lines) == StreamEntriesFrom(lines, 1)

\* the key a relative URI of the object stored under baseKey points at
ResolveRelative(baseKey, uri) ==
    SubSeq(baseKey, 1, LastIndexOf(baseKey, "/", Len(baseKey))) \o uri

ManifestIdle == variants = <<>> /\ playlist = <<>>

\* generateMasterPlaylist is called with the variant list
GenerateMasterPlaylist ==
    /\ playlist = <<>>
    /\ playlist' = generateMasterPlaylist(variants)
    /\ UNCHANGED <<dvars, pvars, rvars, variants, kvars, uvars, hvars>>

(***************************************************************************)
(* The destination paths: generateS3Paths (src/transcoder/index.js)        *)
(***************************************************************************)
\* source keys put together from a prefix, a course, a folder, a file name and
\* an extension
KeyPrefixes == {"courses", "COURSES", "uploads"}
KeyCourses == {<<"c1">>, <<"c-2">>}
KeyFolders == {"videos", "VIDEOS"}
KeyNames == {<<"lec1">>, <<"intro_2">>, <<"lec1", ".", "intro_2">>}
KeyExtensions == {"mp4", "MOV", "avi", "mkv"}
ComposeKey(prefix, course, folder, name, ext) ==
    <<prefix, "/">> \o course \o <<"/", folder, "/">> \o name \o <<".", ext>>
SourceKeys ==
    {ComposeKey(a, c, b, n, x) :
        a \in KeyPrefixes, c \in KeyCourses, b \in KeyFolders, n \in KeyNames,
        x \in KeyExtensions}

NoPaths == [courseId |-> <<>>, filename |-> <<>>]
KeysIdle == originalKey = <<>> /\ keyPaths = NoPaths

\* generateS3Paths is called with originalKey
GenerateS3Paths ==
    /\ keyPaths = NoPaths
    /\ Len(originalKey) > 0
    /\ keyPaths' = generateS3Paths(originalKey)
    /\ UNCHANGED <<dvars, pvars, rvars, mvars, originalKey, uvars, hvars>>

(***************************************************************************)
(* The URL signing service: VideoService                                   *)
(* (src/generate-url/src/services/video.service.ts)                        *)
(***************************************************************************)
SUPPORTED_QUALITIES == {"360p", "480p", "720p", "1080p"}

\* the characters of a token are all in [a-zA-Z0-9-_/]: the word tokens and "/"
KeyChars == WordTokens \cup {"/"}

\* isValidKey: Boolean(key && key.match(/^[a-zA-Z0-9-_/]+$/))
isValidKey(key) == Len(key) > 0 /\ \A i \in 1..Len(key) : key[i] \in KeyChars

\* the arguments of the operations: identifiers of a course or a video, one
\* with a space and one with a dot among them; keys of assets
UrlIds == {<<"c1">>, <<"lec1">>, <<"intro_2">>, <<"my video">>, <<"c1", ".", "lec1">>}
UrlKeys == {<<"c1", "/", "hls", "/", "lec1", "/", "master">>,
            <<"c1", "/", "hls", "/", "lec1", "/", "master", ".", "m3u8">>,
            <<"c1", "/", "my video">>, <<>>}
\* quality: undefined, a supported one, or another string
UrlQualities == {"undefined", "4k"} \cup SUPPORTED_QUALITIES

\* `${courseId}/hls/${videoId}`
StreamBaseKey(courseId, videoId) == courseId \o <<"/", "hls", "/">> \o videoId
\* `${baseKey}/master.m3u8`
StreamMasterKey(courseId, videoId) ==
    StreamBaseKey(courseId, videoId) \o <<"/", "master", ".", "m3u8">>
\* `${baseKey}/${quality}/playlist.m3u8`
StreamQualityKey(courseId, videoId, quality) ==
    StreamBaseKey(courseId, videoId) \o <<"/", quality, "/", "playlist", ".", "m3u8">>

\* what generateSignedUrl returns for a key
SignedUrl(videoKey) == <<"signed", videoKey>>

NoRequest == [op |-> "none", videoKey |-> <<>>, courseId |-> <<>>, videoId |-> <<>>,
              quality |-> "undefined"]
NoResponse == [success |-> FALSE, error |-> "", urls |-> <<>>, threw |-> FALSE]
Failure(error) == [NoResponse EXCEPT !.error = error]
Success(urls) == [NoResponse EXCEPT !.success = TRUE, !.urls = urls]
UrlIdle == request = NoRequest /\ signerCalls = <<>> /\ response = NoResponse

\* VideoService.generateUrl({videoKey}); the signer throws iff signerThrows
GenerateUrl(videoKey, signerThrows) ==
    /\ request' = [NoRequest EXCEPT !.op = "generateUrl", !.videoKey = videoKey]
    /\ IF ~isValidKey(videoKey)
       THEN /\ signerCalls' = <<>>
            /\ response' = Failure("Invalid videoKey format")
       ELSE /\ signerCalls' = <<videoKey>>
            /\ response' = IF signerThrows THEN Failure("Failed to generate signed URL")
                           ELSE Success(<<SignedUrl(videoKey)>>)
    /\ UNCHANGED <<dvars, pvars, rvars, mvars, kvars, hvars>>

\* VideoService.generateStreamUrls({courseId, videoId, quality}); the signer
\* throws in its call number failAt (0: in none)
GenerateStreamUrls(courseId, videoId, quality, failAt) ==
    /\ request' = [NoRequest EXCEPT !.op = "generateStreamUrls", !.courseId = courseId,
                                    !.videoId = videoId, !.quality = quality]
    /\ IF ~isValidKey(courseId) \/ ~isValidKey(videoId)
       THEN /\ signerCalls' = <<>>
            /\ response' = Failure("Invalid courseId or videoId format")
       ELSE IF failAt = 1
       THEN /\ signerCalls' = <<StreamMasterKey(courseId, videoId)>>
            /\ response' = Failure("Failed to generate streaming URLs")
       ELSE IF quality \notin SUPPORTED_QUALITIES
       THEN /\ signerCalls' = <<StreamMasterKey(courseId, videoId)>>
            /\ response' = Success(<<SignedUrl(StreamMasterKey(courseId, videoId))>>)
       ELSE /\ signerCalls' = <<StreamMasterKey(courseId, videoId),
                                StreamQualityKey(courseId, videoId, quality)>>
            /\ response' =
                 IF failAt = 2 THEN Failure("Failed to generate streaming URLs")
                 ELSE Success(<<SignedUrl(StreamMasterKey(courseId, videoId)),
                                SignedUrl(StreamQualityKey(courseId, videoId, quality))>>)
    /\ UNCHANGED <<dvars, pvars, rvars, mvars, kvars, hvars>>

\* VideoService.generatePlayerHtml(courseId, videoId); the signer throws iff
\* signerThrows, and the exception leaves the operation
GeneratePlayerHtml(courseId, videoId, signerThrows) ==
    /\ request' = [NoRequest EXCEPT !.op = "generatePlayerHtml", !.courseId = courseId,
                                    !.videoId = videoId]
    /\ signerCalls' = <<StreamMasterKey(courseId, videoId)>>
    /\ response' = IF signerThrows THEN [NoResponse EXCEPT !.threw = TRUE]
                   ELSE Success(<<SignedUrl(StreamMasterKey(courseId, videoId))>>)
    /\ UNCHANGED <<dvars, pvars, rvars, mvars, kvars, hvars>>

(***************************************************************************)
(* uploadHLSFiles (src/transcoder/index.js) for a variant directory of any *)
(* number of files                                                         *)
(***************************************************************************)
\* no call of uploadHLSFiles
HlsNone == [files |-> 0, pc |-> "idle", chunk |-> 0, up |-> <<>>, calls |-> <<>>,
            settled |-> Pending]
HlsIdle == hls = HlsNone

\* files.slice(i, i + UPLOAD_CONCURRENCY): the files of chunk k of n files
ChunkSlice(k, n) == {f \in 1..n : ChunkOf(f) = k}

\* for (const chunk of chunks) reaches chunk k: the uploads of its files start
\* with Promise.all(chunk.map(...)), or the loop is over and the call returns
EnterChunk(h, k) ==
    IF ChunkSlice(k, h.files) = {}
    THEN [h EXCEPT !.pc = "done", !.settled = Resolved]
    ELSE [h EXCEPT !.chunk = k,
                   !.up = [f \in 1..h.files |->
                             IF f \in ChunkSlice(k, h.files) THEN "inflight" ELSE h.up[f]],
                   !.calls = [f \in 1..h.files |->
                                IF f \in ChunkSlice(k, h.files) THEN h.calls[f] + 1
                                ELSE h.calls[f]]]

\* uploadHLSFiles is called for a directory of n files: readdir, the chunks are
\* cut, the first chunk starts
HlsCall(n) ==
    EnterChunk([HlsNone EXCEPT !.files = n, !.pc = "running",
                               !.up = [f \in 1..n |-> "pending"],
                               !.calls = [f \in 1..n |-> 0]], 1)

\* uploadToS3 of file f resolves; when it was the last of its chunk the next
\* chunk is entered
FileUploaded(f) ==
    /\ f \in 1..hls.files /\ hls.up[f] = "inflight"
    /\ LET h == [hls EXCEPT !.up[f] = "done"] IN
       hls' = IF h.pc = "running" /\ \A g \in ChunkSlice(h.chunk, h.files) : h.up[g] = "done"
              THEN EnterChunk(h, h.chunk + 1)
              ELSE h
    /\ UNCHANGED <<dvars, pvars, rvars, mvars, kvars, uvars>>

\* uploadToS3 of file f rejects: Promise.all of the chunk rejects and the call
\* rejects with it; the other uploads of the chunk go on
FileUploadFails(f) ==
    /\ f \in 1..hls.files /\ hls.up[f] = "inflight"
    /\ LET h == [hls EXCEPT !.up[f] = "failed"] IN
       hls' = IF h.pc = "running"
              THEN [h EXCEPT !.pc = "done", !.settled = Rejected("UploadError")]
              ELSE h
    /\ UNCHANGED <<dvars, pvars, rvars, mvars, kvars, uvars>>

\* nothing but the dispatcher or the pipeline runs
XIdle == RetryIdle /\ ManifestIdle /\ KeysIdle /\ UrlIdle /\ HlsIdle

\* the dispatcher is not part of the pipeline runs
DIdle == DInit({}, {EmptyBody})

InitPipeline == DIdle /\ PIdle /\ XIdle

NextPipeline ==
    \/ StartRun
    \/ DownloadOk
    \/ DownloadSendFail
    \/ DownloadEmpty
    \/ MkdirsOk
    \/ MkdirsFail
    \/ CanaryOk
    \/ \E ran \in {0, 1} : CanaryFail(ran)
    \/ \E v \in remainingResolutions : ProbeFound(v)
    \/ \E v \in remainingResolutions : ProbeNotFound(v)
    \/ \E v \in remainingResolutions : ProbeError(v)
    \/ \E v \in remainingResolutions : EncodeProbeFail(v)
    \/ \E v \in remainingResolutions : EncodeBegin(v)
    \/ \E v \in remainingResolutions : EncodeOk(v)
    \/ \E v \in remainingResolutions : EncodeFail(v)
    \/ \E v \in remainingResolutions, f \in FileIds : UploadOk(v, f)
    \/ \E v \in remainingResolutions, f \in FileIds : UploadFail(v, f)
    \/ MasterOk
    \/ MasterFail
    \/ RmOk
    \/ RmFail

SpecPipeline == InitPipeline /\ [][NextPipeline]_vars

Init == DInit(Msgs, BatchBodies) /\ PIdle /\ XIdle

Next ==
    \/ \E S \in SUBSET Msgs : Receive(S)
    \/ ReceiveFail
    \/ Wake
    \/ Join
    \/ \E m \in Msgs : Begin(m)
    \/ \E m \in Msgs : LaunchOk(m)
    \/ \E m \in Msgs : LaunchFail(m)
    \/ \E m \in Msgs : DeleteOk(m)
    \/ \E m \in Msgs : DeleteFail(m)
    \/ \E m \in Msgs : ExtendSend(m)
    \/ \E m \in Msgs : ExtendOk(m)
    \/ \E m \in Msgs : ExtendFail(m)

Spec == Init /\ [][Next]_vars

\* The dispatcher with one message in the queue, together with the containers
\* it launches
InitJobs == DInit({1}, JobBodies) /\ PIdle /\ XIdle

NextJobs ==
    \/ Next
    \/ \E m \in Msgs, r \in 1..MaxRecords : TaskSucceed(m, r)
    \/ \E m \in Msgs, r \in 1..MaxRecords : TaskFail(m, r)

SpecJobs == InitJobs /\ [][NextJobs]_vars

\* The poll loop with one message in the queue; the timer of sleep(1000) fires
SpecPoll == InitJobs /\ [][Next]_vars /\ WF_vars(Wake)

\* A retry executor is called with an attempt limit of 1..MaxAttempts
InitRetry ==
    /\ DIdle /\ PIdle /\ ManifestIdle /\ KeysIdle /\ UrlIdle /\ HlsIdle
    /\ retry \in {RetryCall(ex, n) : ex \in Executors, n \in 1..MaxAttempts}

NextRetry ==
    \/ \E v \in OpValues : OperationResolves(v)
    \/ \E e \in OpErrors : OperationRejects(e)
    \/ DelayEnds

SpecRetry == InitRetry /\ [][NextRetry]_vars

\* generateMasterPlaylist is called with a list of up to MaxVariants variants,
\* each one of the variants of the configured resolutions
InitManifest ==
    /\ DIdle /\ PIdle /\ RetryIdle /\ KeysIdle /\ UrlIdle /\ HlsIdle
    /\ variants \in SeqsUpTo({masterVariants[i] : i \in 1..Len(RESOLUTIONS)}, MaxVariants)
    /\ playlist = <<>>

NextManifest == GenerateMasterPlaylist

SpecManifest == InitManifest /\ [][NextManifest]_vars

\* generateS3Paths is called with a source key
InitKeys ==
    /\ DIdle /\ PIdle /\ RetryIdle /\ ManifestIdle /\ UrlIdle /\ HlsIdle
    /\ originalKey \in SourceKeys \cup JobKeys
    /\ keyPaths = NoPaths

NextKeys == GenerateS3Paths

SpecKeys == InitKeys /\ [][NextKeys]_vars

\* The URL signing service handles one request after another
InitUrl == DIdle /\ PIdle /\ RetryIdle /\ ManifestIdle /\ KeysIdle /\ UrlIdle /\ HlsIdle

NextUrl ==
    \/ \E k \in UrlKeys, t \in BOOLEAN : GenerateUrl(k, t)
    \/ \E c \in UrlIds, v \in UrlIds, q \in UrlQualities, n \in 0..2 :
          GenerateStreamUrls(c, v, q, n)
    \/ \E c \in UrlIds, v \in UrlIds, t \in BOOLEAN : GeneratePlayerHtml(c, v, t)

SpecUrl == InitUrl /\ [][NextUrl]_vars

\* uploadHLSFiles is called for a variant directory of 0..MaxFiles files
InitUpload ==
    /\ DIdle /\ PIdle /\ RetryIdle /\ ManifestIdle /\ KeysIdle /\ UrlIdle
    /\ hls \in {HlsCall(n) : n \in 0..MaxFiles}

NextUpload ==
    \/ \E f \in 1..MaxFiles : FileUploaded(f)
    \/ \E f \in 1..MaxFiles : FileUploadFails(f)

SpecUpload == InitUpload /\ [][NextUpload]_vars

(***************************************************************************)
(* Properties of the event dispatcher                                      *)
(***************************************************************************)
Failed(m) == outcome[m][1] = "rejected"
Finished(m) == m \in batch /\ mpc[m] = "done"
BatchSettled == loopPc = "join" /\ batch # {} /\ \A m \in batch : mpc[m] = "done"

\* a step of processMessage(m)
MsgStep(m) ==
    \/ Begin(m) \/ LaunchOk(m) \/ LaunchFail(m) \/ DeleteOk(m) \/ DeleteFail(m)
    \/ ExtendSend(m) \/ ExtendOk(m) \/ ExtendFail(m)

\* C1: the delete of a message is sent, and the message deleted, only when every
\* accepted record of it was launched in this delivery; once a launch has failed
\* after all retries the message stays in the queue, whatever was launched before.
C1_AckAfterAllLaunched ==
    \A m \in batch :
        /\ mpc[m] = "delete" => launchedNow[m] = Accepted(body[m])
        /\ ~inQueue[m] => launchedNow[m] = Accepted(body[m])
        /\ err[m] = "LaunchError" => inQueue[m] /\ mpc[m] # "delete"

C1_Witness ==
    \E m \in batch :
        /\ Finished(m) /\ err[m] = "LaunchError"
        /\ launchedNow[m] # {} /\ launchedNow[m] # Accepted(body[m])
        /\ inQueue[m]

\* C2: an error caught by processMessage (empty body, unparsable body, launch
\* failure after all retries, failing delete) leads to one visibility request
\* for the message, then to a rejection with that same error; the message is
\* not deleted.
C2_ErrorExtendsThenRejects ==
    \A m \in batch :
        /\ err[m] # NoError => inQueue[m] /\ mpc[m] \in {"catch", "extending", "done"}
        /\ err[m] # NoError /\ mpc[m] \in {"extending", "done"} => visReq[m] = 1
        /\ Failed(m) => visReq[m] = 1 /\ outcome[m] = Rejected(err[m]) /\ err[m] # NoError
        /\ Finished(m) /\ err[m] # NoError => Failed(m)
        /\ Finished(m) /\ body[m] = EmptyBody => outcome[m] = Rejected("Empty message body")
        /\ Finished(m) /\ body[m] = GarbageBody => outcome[m] = Rejected("SyntaxError")
        /\ Finished(m) /\ launchedNow[m] # Accepted(body[m]) /\ body[m].hasRecords
              => outcome[m] = Rejected("LaunchError")
        /\ Finished(m) /\ launchedNow[m] = Accepted(body[m]) /\ body[m].hasRecords
              /\ inQueue[m] => outcome[m] = Rejected("DeleteError")

C2_Witness ==
    \E m \in batch :
        /\ Finished(m) /\ outcome[m] = Rejected("DeleteError")
        /\ visReq[m] = 1 /\ ~visExt[m] /\ inQueue[m]

\* C3 as stated: when the batch has settled, the messages that did not fail are
\* acknowledged, every failing message has its visibility extended, and no
\* rejection escaped the join.
C3_FailingMessagesExtended ==
    /\ ~escaped
    /\ BatchSettled =>
          \A m \in batch : IF Failed(m) THEN visExt[m] ELSE ~inQueue[m]

\* C3 amended: no message of a batch is held up by another, the messages that
\* did not fail are acknowledged, every failing message stays in the queue with
\* one visibility request sent for it, and no rejection escapes the join.
C3_BatchIsolation ==
    /\ ~escaped
    /\ loopPc = "join" =>
          \A m \in batch : mpc[m] # "done" => ENABLED MsgStep(m)
    /\ BatchSettled =>
          \A m \in batch :
              IF Failed(m) THEN visReq[m] = 1 /\ inQueue[m]
              ELSE outcome[m] = Resolved /\ ~inQueue[m] /\ visReq[m] = 0
    /\ \A m \in batch : visExt[m] => visReq[m] = 1 /\ inQueue[m]

C3_Witness ==
    /\ BatchSettled /\ Cardinality(batch) >= 2
    /\ \E f \in batch :
          /\ Failed(f) /\ ~visExt[f]
          /\ \A m \in batch \ {f} : ~Failed(m) /\ ~inQueue[m]

\* C4: a test notification is acknowledged without a launch and without an error.
C4_TestNotificationAcknowledged ==
    \A m \in batch :
        Finished(m) /\ IsTestNotification(body[m])
            => outcome[m] = Resolved /\ ~inQueue[m] /\ launchedNow[m] = {}

\* C5 as stated: a message whose processing has ended is acknowledged or has its
\* visibility extended, and not both.
C5_AcknowledgedOrExtended ==
    \A m \in batch : Finished(m) => ((~inQueue[m]) # visExt[m])

\* C5 amended: a message whose processing has ended is either acknowledged, or
\* was rejected after one visibility request was sent for it, and not both; its
\* visibility is extended only if that request succeeded.
C5_AcknowledgedOrRequested ==
    \A m \in batch :
        /\ Finished(m) =>
              \/ ~inQueue[m] /\ outcome[m] = Resolved /\ visReq[m] = 0 /\ ~visExt[m]
              \/ inQueue[m] /\ Failed(m) /\ visReq[m] = 1
        /\ visExt[m] => visReq[m] = 1

C5_Witness ==
    \E m \in batch : Finished(m) /\ Failed(m) /\ visReq[m] = 1 /\ ~visExt[m] /\ inQueue[m]

\* C6: no message is deleted from the queue while a transcode job launched for
\* it has failed.
C6_FailedJobKeepsMessage ==
    \A m \in Msgs : \A r \in 1..MaxRecords : tasks[m][r] = "failed" => inQueue[m]

\* C16: the poll loop is always receiving, joining a batch or pausing, and
\* every pause after a failing receive is followed by another receive.
C16_PollLoopSurvives ==
    /\ [](loopPc \in {"receive", "join", "sleep"})
    /\ (loopPc = "sleep") ~> (loopPc = "receive")

C16_Witness == loopPc = "sleep" /\ batch = {} /\ ~escaped

\* C17: a record whose key validateS3Key rejects is never launched, in no
\* attempt, and raises no error: a notification whose accepted records were all
\* launched (one with no accepted record included) fails only if the delete
\* call itself fails, and is acknowledged otherwise.
C17_RejectedKeySkipped ==
    \A m \in batch :
        LET b == body[m] IN
        /\ launchedNow[m] \subseteq Accepted(b)
        /\ \A r \in 1..MaxRecords : tasks[m][r] # "none" => r \in Accepted(b)
        /\ mpc[m] = "launch" => rec[m] \in Accepted(b)
        /\ attempt[m] > 0 => rec[m] \in Accepted(b)
        /\ err[m] = "LaunchError" => rec[m] \in Accepted(b)
        /\ (Finished(m) /\ b.hasRecords /\ launchedNow[m] = Accepted(b)) =>
              /\ err[m] \in {NoError, "DeleteError"}
              /\ err[m] = NoError => outcome[m] = Resolved /\ ~inQueue[m] /\ visReq[m] = 0

C17_Witness ==
    \E m \in batch :
        /\ Finished(m) /\ outcome[m] = Resolved /\ ~inQueue[m]
        /\ body[m].Records = <<S3Record(MkvKey), S3Record(UpperKey)>>
        /\ launchedNow[m] = {2}

(***************************************************************************)
(* Properties of the transcode pipeline                                    *)
(***************************************************************************)
\* the playlist and every segment of variant v are in the destination bucket
VariantStored(v) ==
    /\ getVariantPlaylistKey(s3Paths, RESOLUTIONS[v].name) \in store
    /\ \A f \in FileIds : UploadKey(v, f) \in store

\* variant v was touched in this run: probed, encoded or uploaded
Touched(v) ==
    \/ vpc[v] # "idle" \/ probes[v] > 0 \/ encoderRuns[v] > 0
    \/ \E f \in FileIds : upl[v][f] # "pending"

\* C7: when processVideo has succeeded, and whenever the master manifest has
\* been uploaded, the playlist and the segments of every configured variant,
\* the 360p canary included, are in the destination bucket.
C7_AllVariantsStored ==
    (result = "ok" \/ masterPut) => \A v \in Variants : VariantStored(v)

\* C8: no other variant is probed, encoded or uploaded before the test
\* transcode of the last resolution has succeeded; when it fails, no other
\* encoder runs, nothing is uploaded and the run fails.
C8_CanaryFirst ==
    /\ \A v \in remainingResolutions :
          Touched(v) => vpc[testResolution] = "done" /\ encoderRuns[testResolution] = 1
    /\ (puts # {} \/ masterPut) => vpc[testResolution] = "done"
    /\ vpc[testResolution] = "failed" =>
          /\ \A v \in remainingResolutions : ~Touched(v)
          /\ puts = {} /\ ~masterPut
          /\ result = "failed"

C8_Witness ==
    /\ ppc = "exited" /\ result = "failed"
    /\ vpc[testResolution] = "failed" /\ encoderRuns[testResolution] = 1

\* C9: a run that follows a successful run for the same source succeeds with no
\* encoder invocation and no upload of a variant file, and uploads the master
\* manifest.
C9_SecondRunDoesNothing ==
    (run >= 2 /\ prevOk /\ result = "ok") =>
        /\ \A v \in Variants : encoderRuns[v] = 0
        /\ puts = {}
        /\ masterPut

\* C10: when processVideo has ended, the workspace directory is gone.
C10_WorkspaceRemoved == ppc = "exited" => ~workDir

\* C11: when a run has failed at the download step (originalVideoPath was never
\* set) and has ended, neither the downloaded source file nor the workspace
\* directory is on the local disk.
C11_NoFilesAfterFailedDownload ==
    (ppc = "exited" /\ result = "failed" /\ ~originalVideoPath)
        => ~sourceFile /\ ~workDir

\* C15: when the task of a variant has failed (its probe, its encode or one of
\* its uploads), the run has failed and the master manifest is not uploaded in
\* it; every object the run has put is still in the destination bucket.
C15_VariantFailureFailsRun ==
    /\ \A v \in Variants :
          (vpc[v] = "failed" \/ \E f \in FileIds : upl[v][f] = "failed")
              => result = "failed" /\ ~masterPut /\ ppc \in {"cleanup", "exited"}
    /\ puts \subseteq store

C15_Witness ==
    /\ ppc = "exited" /\ result = "failed" /\ ~masterPut
    /\ \E v \in remainingResolutions : \E f \in FileIds : upl[v][f] = "failed"
    /\ \E v \in remainingResolutions : VariantStored(v) /\ UploadKey(v, 1) \in puts

\* C20: checkFileExists has returned false only for a variant whose playlist
\* was not in the bucket when it was probed; when it has thrown, the task of the
\* variant and the run have failed, the encoder was not started for the variant
\* and nothing of it was uploaded; the encoder runs for a variant of the fan-out
\* only after checkFileExists has returned false.
C20_OnlyNotFoundMeansAbsent ==
    \A v \in remainingResolutions :
        LET key == getVariantPlaylistKey(s3Paths, RESOLUTIONS[v].name) IN
        /\ exists[v] = "false" => (key \notin store \/ key \in puts)
        /\ exists[v] = "threw" =>
              /\ vpc[v] = "failed" /\ result = "failed" /\ ~masterPut
              /\ encoderRuns[v] = 0
              /\ \A f \in FileIds : upl[v][f] = "pending"
        /\ encoderRuns[v] > 0 => exists[v] = "false"

C20_Witness ==
    /\ ppc = "exited" /\ result = "failed"
    /\ \E v \in remainingResolutions :
          /\ exists[v] = "threw" /\ encoderRuns[v] = 0
          /\ getVariantPlaylistKey(s3Paths, RESOLUTIONS[v].name) \in store

\* the task of variant v is encoding or uploading
InFlight(v) ==
    \/ vpc[v] \in {"ffprobe", "encoding", "uploading"}
    \/ \E f \in FileIds : upl[v][f] = "inflight"

\* C21: while the task of a variant is encoding or uploading, processVideo has
\* not ended and the workspace directory is still there.
C21_WorkspaceHeldUntilSettled ==
    \A v \in remainingResolutions :
        InFlight(v) => ppc \notin {"exited"} /\ workDir

\* C25: the launches of a delivery succeed in record order, one for each
\* accepted record and none for another: while a record is being launched the
\* accepted records before it are launched and no later one is; each launch
\* carries the bucket and the key of its record; a delivery that has ended
\* acknowledged has launched every accepted record once.
C25_OneLaunchPerRecordInOrder ==
    \A m \in Msgs :
        LET log == launchLog[m]
            b == body[m] IN
        /\ \A k \in 1..Len(log) :
              /\ log[k].record \in Accepted(b)
              /\ log[k].environment.AWS_S3_TEMP_BUCKET = b.Records[log[k].record].bucket
              /\ log[k].environment.AWS_S3_TEMP_KEY = b.Records[log[k].record].key
              /\ \A j \in 1..(k - 1) : log[j].record < log[k].record
        /\ mpc[m] = "launch" =>
              {log[k].record : k \in 1..Len(log)} = {a \in Accepted(b) : a < rec[m]}
        /\ (mpc[m] = "done" /\ outcome[m] = Resolved) =>
              /\ Len(log) = Cardinality(Accepted(b))
              /\ {log[k].record : k \in 1..Len(log)} = Accepted(b)

C25_Witness ==
    /\ mpc[1] = "done" /\ outcome[1] = Resolved /\ ~inQueue[1]
    /\ Len(body[1].Records) = 2 /\ Len(launchLog[1]) = 2
    /\ launchLog[1][1].environment.AWS_S3_TEMP_KEY # launchLog[1][2].environment.AWS_S3_TEMP_KEY

\* C27: over all deliveries of a message, no record of it is launched more than
\* once.
C27_AtMostOneLaunchPerRecord ==
    \A m \in Msgs : \A r \in 1..MaxRecords : launchCount[m][r] <= 1

\* C26: when a run has ended, every variant whose playlist is in the destination
\* bucket has all its segments there; a variant that the existence probe has
\* found, and that is therefore skipped, is stored with all its files.
C26_PlaylistImpliesSegments ==
    \A v \in Variants :
        /\ (ppc = "exited"
              /\ getVariantPlaylistKey(s3Paths, RESOLUTIONS[v].name) \in store)
             => \A f \in FileIds : UploadKey(v, f) \in store
        /\ exists[v] = "true" => VariantStored(v)

\* C28: a message whose body is empty, is no JSON, or is a document without a
\* Records list stays in the queue; no record of it is ever launched; each
\* delivery of it that has ended has sent one visibility request and has
\* rejected with the error of the body.
C28_UnreadableNeverAcknowledged ==
    \A m \in Msgs :
        LET b == body[m] IN
        (b.text # "json" \/ ~b.hasRecords) =>
            /\ m = 1 => inQueue[m]
            /\ mpc[m] \notin {"launch", "delete"}
            /\ launchLog[m] = <<>>
            /\ \A r \in 1..MaxRecords : launchCount[m][r] = 0 /\ tasks[m][r] = "none"
            /\ mpc[m] = "done" =>
                  /\ visReq[m] = 1
                  /\ outcome[m][1] = "rejected"
                  /\ b.text = "" => outcome[m][2] = "Empty message body"
                  /\ b.text = "garbage" => outcome[m][2] = "SyntaxError"
                  /\ b.text = "json" => outcome[m][2] \in {"TypeError", "Test event received"}

C28_Witness ==
    /\ body[1] = NoRecordsBody /\ mpc[1] = "done" /\ inQueue[1]
    /\ outcome[1] = Rejected("TypeError") /\ visReq[1] = 1 /\ ~visExt[1]

\* C23: when every download attempt of a run has written an empty file, there
\* were PIPELINE_MAX_RETRIES attempts, the run has failed, and in it the encoder
\* was not started, no variant was probed and nothing was uploaded.
C23_EmptyDownloadFailsJob ==
    (ppc \notin {"idle", "download"} /\ dlEmpty = dlAttempt) =>
        /\ dlAttempt = 3
        /\ result = "failed"
        /\ \A v \in Variants :
              encoderRuns[v] = 0 /\ probes[v] = 0 /\ exists[v] = "unknown"
              /\ upl[v] = NoUploads
        /\ puts = {} /\ ~masterPut

C23_Witness ==
    /\ ppc = "exited" /\ result = "failed" /\ dlEmpty = 3 /\ dlAttempt = 3
    /\ run = 2 /\ store # {}

\* C22: at most UPLOAD_CONCURRENCY uploads of a call of uploadHLSFiles are in
\* flight at once; the upload of a file has started only when every file of the
\* chunks before its own is uploaded; no file is uploaded twice, and when the
\* call has resolved every file was uploaded once.
C22_BoundedChunkedUploads ==
    /\ Cardinality({f \in 1..hls.files : hls.up[f] = "inflight"}) <= 5
    /\ \A f \in 1..hls.files :
          /\ hls.calls[f] <= 1
          /\ hls.up[f] # "pending" =>
                /\ hls.calls[f] = 1
                /\ \A g \in 1..hls.files :
                      (g - 1) \div 5 < (f - 1) \div 5 => hls.up[g] = "done"
    /\ hls.settled = Resolved /\ hls.pc = "done" =>
          \A f \in 1..hls.files : hls.up[f] = "done" /\ hls.calls[f] = 1

C22_Witness ==
    /\ hls.files = 7 /\ hls.pc = "done" /\ hls.settled = Resolved
    /\ \A f \in 1..7 : hls.up[f] = "done"

(***************************************************************************)
(* Properties of the retry executors                                       *)
(***************************************************************************)
\* C12: a retry executor invokes the operation at most maxRetries times and
\* only after every earlier invocation has failed; it resolves with the value
\* of the first successful invocation, and it rejects only after exactly
\* maxRetries failed invocations, with the error of the last of them.
C12_RetryExact ==
    LET c == retry.calls
        n == Len(c) IN
    /\ n <= retry.maxRetries
    /\ \A k \in 1..(n - 1) : c[k][1] = "err"
    /\ retry.pc \in {"call", "sleep"} =>
          /\ retry.settled = Pending
          /\ n < retry.maxRetries
          /\ \A k \in 1..n : c[k][1] = "err"
    /\ retry.pc = "done" =>
          /\ n >= 1
          /\ c[n][1] = "ok" => retry.settled = ResolvedWith(c[n][2])
          /\ c[n][1] = "err" => n = retry.maxRetries /\ retry.settled = Rejected(c[n][2])

C12_Witness ==
    /\ retry.executor = "retryWithBackoff" /\ retry.pc = "done"
    /\ retry.maxRetries = MAX_RETRIES /\ Len(retry.calls) = MAX_RETRIES
    /\ retry.calls[1] = <<"err", "E1">>
    /\ retry.settled = Rejected("E2")

\* C24: the k-th wait of a retry executor, the one after failed attempt k, is
\* min(1000 * 2^(k-1), ceiling) ms with the ceiling 10000 in withRetry and 5000
\* in retryWithBackoff; the waits never decrease and never exceed the ceiling;
\* every failed attempt but the last allowed one is followed by one wait, so an
\* executor that has rejected has waited one time less than it has attempted.
C24_BackoffDelays ==
    LET w == retry.waits
        ceiling == IF retry.executor = "withRetry" THEN 10000 ELSE 5000
        failures == Cardinality({k \in 1..Len(retry.calls) : retry.calls[k][1] = "err"}) IN
    /\ \A k \in 1..Len(w) :
          /\ w[k] = (IF 1000 * 2^(k - 1) < ceiling THEN 1000 * 2^(k - 1) ELSE ceiling)
          /\ w[k] <= ceiling
          /\ k > 1 => w[k - 1] <= w[k]
    /\ retry.settled = Pending => Len(w) = failures
    /\ retry.pc = "done" /\ retry.settled[1] = "resolved" => Len(w) = failures
    /\ retry.pc = "done" /\ retry.settled[1] = "rejected" =>
          Len(w) = failures - 1 /\ failures = retry.maxRetries

C24_Witness ==
    /\ retry.executor = "withRetry" /\ retry.pc = "done" /\ retry.maxRetries = 6
    /\ retry.settled[1] = "rejected"
    /\ retry.waits = <<1000, 2000, 4000, 8000, 10000>>

(***************************************************************************)
(* Properties of the master manifest                                       *)
(***************************************************************************)
\* C13: once the master manifest is uploaded, each of its entries, resolved
\* against the key of the master manifest, is the key under which the playlist
\* of that variant is stored.
C13_EntriesPointAtVariantPlaylists ==
    masterPut =>
        /\ Len(StreamEntries(masterPlaylist)) = Len(RESOLUTIONS)
        /\ \A v \in Variants :
              ResolveRelative(getMasterPlaylistKey(s3Paths), StreamEntries(masterPlaylist)[v].uri)
                  = getVariantPlaylistKey(s3Paths, RESOLUTIONS[v].name)

\* C14: the manifest generateMasterPlaylist returns has one stream-info entry
\* per variant of its argument, entry i carrying the bandwidth and resolution of
\* variant i; for the variants of the configured resolutions the bandwidths are
\* 5000000, 2800000, 1400000, 800000.
C14_OneEntryPerVariantInOrder ==
    playlist # <<>> =>
        LET entries == StreamEntries(playlist) IN
        /\ Len(entries) = Len(variants)
        /\ \A i \in 1..Len(variants) :
              /\ entries[i].bandwidth = variants[i].bandwidth
              /\ entries[i].resolution = variants[i].resolution
        /\ variants = masterVariants =>
              [i \in 1..Len(entries) |-> entries[i].bandwidth]
                  = <<5000000, 2800000, 1400000, 800000>>

C14_Witness ==
    /\ variants = masterVariants
    /\ Len(StreamEntries(playlist)) = 4
    /\ StreamEntries(playlist)[4].bandwidth = 800000

(***************************************************************************)
(* Properties of the URL signing service and of the destination paths      *)
(***************************************************************************)
\* the key has a character outside [a-zA-Z0-9-_/], such as a space
HasForeignChar(key) == \E i \in 1..Len(key) : key[i] \notin KeyChars

\* C18: a request of generateUrl, generateStreamUrls or generatePlayerHtml with
\* a key, courseId or videoId that has a character outside [a-zA-Z0-9-_/] is
\* rejected, and generateSignedUrl is not called for it.
C18_ForeignCharNeverSigned ==
    (\/ HasForeignChar(request.videoKey)
     \/ HasForeignChar(request.courseId)
     \/ HasForeignChar(request.videoId))
        => signerCalls = <<>> /\ ~response.success /\ ~response.threw

\* C19: for a source key validateS3Key accepts, prefix/<courseId>/folder/
\* <filename>.<ext>, generateS3Paths returns that courseId and that filename,
\* and the master and variant playlist keys made of them are the keys
\* generateStreamUrls signs for courseId and videoId = filename, which it accepts.
C19_PathsRecoverCourseAndFile ==
    (keyPaths # NoPaths /\ validateS3Key(originalKey)) =>
        /\ IsWord(keyPaths.courseId) /\ IsWord(keyPaths.filename)
        /\ \E a \in {"courses", "COURSES"}, b \in {"videos", "VIDEOS"} :
              originalKey = ComposeKey(a, keyPaths.courseId, b, keyPaths.filename,
                                       originalKey[Len(originalKey)])
        /\ isValidKey(keyPaths.courseId) /\ isValidKey(keyPaths.filename)
        /\ getMasterPlaylistKey(keyPaths)
              = StreamMasterKey(keyPaths.courseId, keyPaths.filename)
        /\ \A v \in Variants :
              /\ RESOLUTIONS[v].name \in SUPPORTED_QUALITIES
              /\ getVariantPlaylistKey(keyPaths, RESOLUTIONS[v].name)
                    = StreamQualityKey(keyPaths.courseId, keyPaths.filename,
                                       RESOLUTIONS[v].name)

C19_Witness ==
    /\ originalKey = ComposeKey("COURSES", <<"c-2">>, "videos", <<"intro_2">>, "MOV")
    /\ keyPaths = [courseId |-> <<"c-2">>, filename |-> <<"intro_2">>]

====
